---- MODULE Spec2Model ----
(***************************************************************************)
(* Ratodui: a terminal todo list with mouse-draggable progress bars.       *)
(* Model of src/main.rs: the main loop's event handling (edit mode, mouse  *)
(* hit-testing, drag tracking), persistence on mutation, and the exit      *)
(* path.  Indices are 1-based here (the Rust code is 0-based): todo k of   *)
(* the model is todos[k-1] of the code, and chunk k is chunks[k-1].        *)
(* Strings are sequences of one-character strings.                         *)
(***************************************************************************)
EXTENDS Integers, Sequences, FiniteSets, TLC

VARIABLES
    todos,                 \* Vec<Todo> owned by main
    dragging,              \* bool
    drag_index,            \* Option<usize>
    editing_index,         \* Option<usize>
    input_buffer,          \* String
    just_started_editing,  \* bool
    disk,                  \* todos.json: [state: absent | unreadable |
                           \*              malformed | ok, list]
    loaded,                \* what load_todos returned at startup
    proj_dirs,             \* ProjectDirs::from(..) is Some
    size,                  \* terminal.size()
    expand_to_fill,        \* the layout library stretches the last chunk
    arm,                   \* the match arm the latest loop iteration ran
    saves,                 \* save_todos calls made by the latest step of main
    pc,                    \* position of main
    final_saves,           \* executions of the save after the loop
    term,                  \* terminal modes
    bar_area,              \* update_progress harness: the bar Rect
    trace,                 \* update_progress harness: events applied so far
    rendered,              \* build_progress_bar harness: the String returned
    queue,                 \* events sent on the channel and not yet received
    input_alive            \* the input thread has not terminated

vars == <<todos, dragging, drag_index, editing_index, input_buffer,
          just_started_editing, disk, loaded, proj_dirs, size, expand_to_fill,
          arm, saves, pc, final_saves, term, bar_area, trace, rendered,
          queue, input_alive>>

\* ---------------------------------------------------------------- bounds
MaxTodos == 2
MaxLen == 1
MaxTrace == 3
MaxWidth == 12
MaxQueue == 2

\* ------------------------------------------------------- program constants
TitleWidth == 30
U16 == 65536

\* Option<usize>::None (indices are 1-based, so 0 is free)
None == 0

Wrap16(n) == n % U16

\* ---------------------------------------------------------------- strings
NewTodoName == <<"N", "e", "w", " ", "T", "o", "d", "o">>

Digit(d) == CASE d = 0 -> "0" [] d = 1 -> "1" [] d = 2 -> "2" [] d = 3 -> "3"
              [] d = 4 -> "4" [] d = 5 -> "5" [] d = 6 -> "6" [] d = 7 -> "7"
              [] d = 8 -> "8" [] OTHER -> "9"

RECURSIVE ToDecimal(_)
ToDecimal(n) == IF n < 10 THEN <<Digit(n)>>
                ELSE Append(ToDecimal(n \div 10), Digit(n % 10))

\* format!(" {}%", progress)
percent_str(progress) == <<" ">> \o ToDecimal(progress) \o <<"%">>

extra_chars(progress) == 2 + Len(percent_str(progress))

\* ----------------------------------------------------------------- layout
Rect(x, y, w, h) == [x |-> x, y |-> y, width |-> w, height |-> h]

Sat(n) == IF n < 0 THEN 0 ELSE n

Min2(a, b) == IF a < b THEN a ELSE b

is_inside(pos, area) ==
    /\ pos[1] >= area.x
    /\ pos[1] < Wrap16(area.x + area.width)
    /\ pos[2] >= area.y
    /\ pos[2] < Wrap16(area.y + area.height)

compute_chunks_without_add(sz, n, fill) ==
    LET ix == sz.x + 1
        iy == sz.y + 1
        iw == Sat(sz.width - 2)
        ih == Sat(sz.height - 2)
    IN [k \in 1..n |->
          Rect(ix, iy + (k - 1), iw,
               IF k = n /\ fill THEN Sat(ih - (n - 1)) ELSE 1)]

\* Layout: vertical, margin 1, one Length(1) constraint per todo plus one for
\* the add button.  The last chunk takes the rest of the inner area when the
\* library expands the last chunk, and is one row tall otherwise.
compute_chunks(sz, n, fill) ==
    LET ix == sz.x + 1
        iy == sz.y + 1
        iw == Sat(sz.width - 2)
        ih == Sat(sz.height - 2)
    IN [k \in 1..(n + 1) |->
          Rect(ix, iy + (k - 1), iw,
               IF k = n + 1 /\ fill THEN Sat(ih - n) ELSE 1)]

\* Layout: horizontal, Length(30) then Min(1).
horizontal_chunks(chunk) ==
    LET tw == Min2(TitleWidth, chunk.width)
    IN << Rect(chunk.x, chunk.y, tw, chunk.height),
          Rect(chunk.x + tw, chunk.y, chunk.width - tw, chunk.height) >>

\* ------------------------------------------------------------ persistence
NewTodo == [name |-> NewTodoName, progress |-> 0]

File(state, list) == [state |-> state, list |-> list]

load_todos_without_dirs(dirs, file) ==
    IF file.state = "ok" THEN file.list ELSE <<>>

load_todos(dirs, file) ==
    IF dirs /\ file.state = "ok" THEN file.list ELSE <<>>

save_todos(s) ==
    IF proj_dirs
    THEN [s EXCEPT !.disk = File("ok", s.todos), !.saves = @ + 1]
    ELSE [s EXCEPT !.saves = @ + 1]

\* -------------------------------------------------------- update_progress
update_progress_unclamped(todo, area, mouse_x) ==
    LET extra == extra_chars(todo.progress)
        bar_width == area.width - extra
        start_x == Wrap16(area.x + 1)
    IN IF area.width <= extra THEN todo
       ELSE IF mouse_x >= start_x
            THEN [todo EXCEPT !.progress =
                     Wrap16((mouse_x - start_x) * 100) \div bar_width]
            ELSE todo

update_progress_fixed_overhead(todo, area, mouse_x) ==
    LET extra == 5
        bar_width == area.width - extra
        start_x == Wrap16(area.x + 1)
        end_x == Wrap16(start_x + bar_width)
    IN IF area.width <= extra THEN todo
       ELSE IF mouse_x >= start_x /\ mouse_x <= end_x
            THEN [todo EXCEPT !.progress =
                     Min2(Wrap16((mouse_x - start_x) * 100) \div bar_width, 100)]
            ELSE todo

update_progress_accumulates(todo, area, mouse_x) ==
    LET extra == extra_chars(todo.progress)
        bar_width == area.width - extra
        progress_bar_start_x == Wrap16(area.x + 1)
        progress_bar_end_x == Wrap16(progress_bar_start_x + bar_width)
    IN IF area.width <= extra THEN todo
       ELSE IF mouse_x >= progress_bar_start_x /\ mouse_x <= progress_bar_end_x
            THEN LET relative_x == mouse_x - progress_bar_start_x
                 IN [todo EXCEPT !.progress =
                        Min2(@ + Wrap16(relative_x * 100) \div bar_width, 100)]
            ELSE todo

update_progress_half_open(todo, area, mouse_x) ==
    LET extra == extra_chars(todo.progress)
        bar_width == area.width - extra
        progress_bar_start_x == Wrap16(area.x + 1)
        progress_bar_end_x == Wrap16(progress_bar_start_x + bar_width)
    IN IF area.width <= extra THEN todo
       ELSE IF mouse_x >= progress_bar_start_x /\ mouse_x < progress_bar_end_x
            THEN LET relative_x == mouse_x - progress_bar_start_x
                 IN [todo EXCEPT !.progress =
                        Min2(Wrap16(relative_x * 100) \div bar_width, 100)]
            ELSE todo

update_progress(todo, area, mouse_x) ==
    LET extra == extra_chars(todo.progress)
        bar_width == area.width - extra
        progress_bar_start_x == Wrap16(area.x + 1)
        progress_bar_end_x == Wrap16(progress_bar_start_x + bar_width)
    IN IF area.width <= extra THEN todo
       ELSE IF mouse_x >= progress_bar_start_x /\ mouse_x <= progress_bar_end_x
            THEN LET relative_x == mouse_x - progress_bar_start_x
                 IN [todo EXCEPT !.progress =
                        Min2(Wrap16(relative_x * 100) \div bar_width, 100)]
            ELSE todo

\* ------------------------------------------------------ build_progress_bar
Repeat(c, n) == [k \in 1..n |-> c]

\* The value of a call that returns a String, or a panic
Returned(text) == [panic |-> FALSE, text |-> text]

Panicked == [panic |-> TRUE, text |-> <<>>]

filled_blocks(progress, bar_width) == (progress * bar_width) \div 100

\* empty_blocks = bar_width - filled_blocks is a usize subtraction (line 443):
\* with filled_blocks > bar_width a debug build panics on the subtraction, and
\* a release build wraps to a count near 2^64 that "-".repeat(..) cannot
\* allocate, so both builds crash.
empty_blocks_underflows(progress, width) ==
    /\ width > extra_chars(progress)
    /\ filled_blocks(progress, width - extra_chars(progress))
          > width - extra_chars(progress)

build_progress_bar_round_up(progress, width) ==
    IF width <= extra_chars(progress)
    THEN Returned(percent_str(progress) \o <<"%">>)
    ELSE IF empty_blocks_underflows(progress, width) THEN Panicked
    ELSE LET bar_width == width - extra_chars(progress)
             filled == (progress * bar_width + 99) \div 100
             empty_blocks == bar_width - filled
         IN Returned(<<"[">> \o Repeat("#", filled) \o Repeat("-", empty_blocks)
                       \o <<"]">> \o percent_str(progress))

build_progress_bar(progress, width) ==
    IF width <= extra_chars(progress)
    THEN Returned(percent_str(progress) \o <<"%">>)
    ELSE IF empty_blocks_underflows(progress, width) THEN Panicked
    ELSE LET bar_width == width - extra_chars(progress)
             filled == filled_blocks(progress, bar_width)
             empty_blocks == bar_width - filled
         IN Returned(<<"[">> \o Repeat("#", filled) \o Repeat("-", empty_blocks)
                       \o <<"]">> \o percent_str(progress))

\* terminal.draw(|f| ui(..)) (lines 111-113, 239-294) panics when the bar of
\* some todo does
draw_panics(list, chunks) ==
    \E i \in 1..Len(list) :
        empty_blocks_underflows(list[i].progress,
                                horizontal_chunks(chunks[i])[2].width)

\* ----------------------------------------------------------------- events
\* crossterm events as delivered to the main loop.  Fields an event does not
\* carry hold "-" (or 0), so that all events are records of one shape.
Tick == [type |-> "Tick", code |-> "-", ch |-> "-", kind |-> "-",
         button |-> "-", column |-> 0, row |-> 0]

Key(code, ch) == [type |-> "Key", code |-> code, ch |-> ch, kind |-> "-",
                  button |-> "-", column |-> 0, row |-> 0]

Mouse(kind, button, column, row) ==
    [type |-> "Mouse", code |-> "-", ch |-> "-", kind |-> kind,
     button |-> button, column |-> column, row |-> row]

\* ------------------------------------------------- the main loop's locals
Local == [todos |-> todos, dragging |-> dragging, drag_index |-> drag_index,
          editing_index |-> editing_index, input_buffer |-> input_buffer,
          just_started_editing |-> just_started_editing, disk |-> disk,
          saves |-> 0, brk |-> FALSE, arm |-> "none"]

\* ---------------------------------------------------- process_mouse_event
\* Clicked on the title area - start editing (lines 333-341)
start_editing_keep_name(s, i) ==
    [s EXCEPT !.editing_index = i,
              !.just_started_editing = TRUE,
              !.input_buffer = s.todos[i].name]

start_editing(s, i) ==
    [s EXCEPT !.editing_index = i,
              !.just_started_editing = TRUE,
              !.input_buffer = IF s.todos[i].name = NewTodoName
                               THEN <<>> ELSE s.todos[i].name]

\* Clicked on the progress bar area (lines 342-350)
start_dragging(s, i, area, column) ==
    save_todos([s EXCEPT !.dragging = TRUE,
                         !.drag_index = i,
                         !.todos[i] = update_progress(s.todos[i], area, column)])

\* Click on the add button (lines 359-365)
add_todo_no_save(s) ==
    [s EXCEPT !.todos = Append(s.todos, NewTodo)]

add_todo_in_front(s) ==
    save_todos([s EXCEPT !.todos = <<NewTodo>> \o s.todos])

add_todo(s) ==
    save_todos([s EXCEPT !.todos = Append(s.todos, NewTodo)])

mouse_down(s, m, chunks) ==
    LET mouse_pos == <<m.column, m.row>>
        n == Len(s.todos)
        hit == {i \in 1..Min2(Len(chunks), n) : is_inside(mouse_pos, chunks[i])}
    IN IF m.button # "Left" THEN s
       ELSE IF hit # {}
       THEN LET i == CHOOSE k \in hit : \A j \in hit : k <= j
                h == horizontal_chunks(chunks[i])
            IN IF is_inside(mouse_pos, h[1]) THEN start_editing(s, i)
               ELSE IF is_inside(mouse_pos, h[2])
               THEN start_dragging(s, i, h[2], m.column)
               ELSE s
       ELSE IF Len(chunks) >= n + 1 /\ is_inside(mouse_pos, chunks[n + 1])
       THEN add_todo(s)
       ELSE s

\* Drag over the bar of the dragged todo (lines 386-388)
drag_to(s, i, area, column) ==
    save_todos([s EXCEPT !.todos[i] =
                   update_progress(s.todos[i], area, column)])

mouse_drag(s, m, chunks) ==
    IF s.editing_index = None /\ s.dragging /\ m.button = "Left"
       /\ s.drag_index # None
    THEN drag_to(s, s.drag_index,
                 horizontal_chunks(chunks[s.drag_index])[2], m.column)
    ELSE s

mouse_up_keeps_index(s, m) ==
    IF m.button = "Left" THEN [s EXCEPT !.dragging = FALSE] ELSE s

mouse_up(s, m) ==
    IF m.button = "Left"
    THEN [s EXCEPT !.dragging = FALSE, !.drag_index = None]
    ELSE s

process_mouse_event(s, m, chunks) ==
    CASE m.kind = "Down" -> mouse_down(s, m, chunks)
      [] m.kind = "Drag" -> mouse_drag(s, m, chunks)
      [] m.kind = "Up" -> mouse_up(s, m)
      [] OTHER -> s

\* ------------------------------------------------------- main: edit mode
\* Update the todo's name and exit edit mode (lines 131-135, 139-143,
\* 164-168, 187-191)
commit_edit_skips_empty(s, i) ==
    save_todos([s EXCEPT !.todos[i].name =
                             IF s.input_buffer = <<>> THEN @ ELSE s.input_buffer,
                         !.input_buffer = <<>>,
                         !.editing_index = None])

commit_edit(s, i) ==
    save_todos([s EXCEPT !.todos[i].name = s.input_buffer,
                         !.input_buffer = <<>>,
                         !.editing_index = None])

pop(str) == IF Len(str) = 0 THEN str ELSE SubSeq(str, 1, Len(str) - 1)

edit_key_esc_cancels(s, i, k) ==
    CASE k.code = "Char" -> [s EXCEPT !.input_buffer = Append(@, k.ch)]
      [] k.code = "Backspace" -> [s EXCEPT !.input_buffer = pop(@)]
      [] k.code = "Enter" -> commit_edit(s, i)
      [] k.code = "Esc" -> [s EXCEPT !.input_buffer = <<>>,
                                     !.editing_index = None]
      [] OTHER -> commit_edit(s, i)

edit_key(s, i, k) ==
    CASE k.code = "Char" -> [s EXCEPT !.input_buffer = Append(@, k.ch)]
      [] k.code = "Backspace" -> [s EXCEPT !.input_buffer = pop(@)]
      [] k.code \in {"Enter", "Esc"} -> commit_edit(s, i)
      [] OTHER -> LET c == commit_edit(s, i)
                  IN IF k.code = "Char" /\ k.ch = "q"
                     THEN [c EXCEPT !.brk = TRUE] ELSE c

edit_mouse_leaky(s, i, m, chunks) ==
    IF m.kind = "Moved" THEN s
    ELSE process_mouse_event(commit_edit(s, i), m, chunks)

edit_mouse_commit_only(s, i, m, chunks) ==
    IF s.just_started_editing
    THEN [s EXCEPT !.just_started_editing = FALSE]
    ELSE IF m.kind = "Moved" THEN s
         ELSE commit_edit(s, i)

edit_mouse(s, i, m, chunks) ==
    IF s.just_started_editing
    THEN [s EXCEPT !.just_started_editing = FALSE]
    ELSE IF m.kind = "Moved" THEN s
         ELSE process_mouse_event(commit_edit(s, i), m, chunks)

\* ----------------------------------------------------- main: normal mode
normal_key_ignores_q_while_dragging(s, k) ==
    IF k.code = "Char" /\ k.ch = "q" /\ ~s.dragging
    THEN [s EXCEPT !.brk = TRUE] ELSE s

normal_key(s, k) ==
    IF k.code = "Char" /\ k.ch = "q" THEN [s EXCEPT !.brk = TRUE] ELSE s

At(s, a) == [s EXCEPT !.arm = a]

\* The body of `match rx.recv()?` (lines 116-220).  Each result carries the
\* match arm that produced it.
handle_event(s, ev, chunks) ==
    IF ev.type = "Tick" THEN At(s, "tick")
    ELSE IF s.editing_index # None
    THEN LET i == s.editing_index
         IN CASE ev.type = "Key" ->
                   At(edit_key(s, i, ev),
                      CASE ev.code = "Char" -> "edit_char"
                        [] ev.code = "Backspace" -> "edit_backspace"
                        [] ev.code \in {"Enter", "Esc"} -> "edit_enter_esc"
                        [] OTHER -> "edit_other_key")
              [] ev.type = "Mouse" ->
                   At(edit_mouse(s, i, ev, chunks),
                      IF s.just_started_editing THEN "edit_mouse_ignored"
                      ELSE IF ev.kind = "Moved" THEN "edit_mouse_moved"
                      ELSE "edit_mouse_commit")
              [] OTHER -> At(commit_edit(s, i), "edit_other_event")
    ELSE CASE ev.type = "Key" -> At(normal_key(s, ev), "normal_key")
           [] ev.type = "Mouse" ->
                   At(process_mouse_event(s, ev, chunks), "normal_mouse")
           [] OTHER -> At(s, "normal_other_event")

\* ------------------------------------------------------------ input sets
Chars == {"B", "q"}

KeyEvents == {Key("Char", c) : c \in Chars}
             \cup {Key(k, "-") : k \in {"Backspace", "Enter", "Esc", "Tab"}}

\* Columns: left margin, title, '[' of the bar, first bar cell, and ']' of
\* the bar for a one-digit percentage (at width 72).
Cols == {0, 5, 31, 32, 67}

Rows == 1..(MaxTodos + 1)

\* The handlers read the position of Down(Left) (column and row) and of
\* Drag(Left) (column) only.
MouseEvents ==
    {Mouse("Down", "Left", c, r) : c \in Cols, r \in Rows}
    \cup {Mouse("Drag", "Left", c, 1) : c \in Cols}
    \cup {Mouse(k, b, 5, 1) : k \in {"Down", "Drag", "Up"}, b \in {"Right"}}
    \cup {Mouse("Up", "Left", 5, 1), Mouse("Moved", "-", 5, 1)}

Name(c) == <<c>>

Size(w) == Rect(0, 0, w, MaxTodos + 3)

\* Start-up environments: data directory resolvable, file content, terminal
\* size, layout library behaviour.
Environments ==
    { <<TRUE, File(st, <<>>), Size(72), TRUE>> :
          st \in {"absent", "unreadable", "malformed", "ok"} }
    \cup
    { <<TRUE, File("ok", <<[name |-> Name("X"), progress |-> 0]>>),
        Size(72), FALSE>>,
      <<TRUE, File("ok", <<[name |-> Name("A"), progress |-> 150]>>),
        Size(72), TRUE>>,
      <<TRUE, File("ok", <<[name |-> Name("A"), progress |-> 150]>>),
        Size(37), TRUE>>,
      <<FALSE, File("ok", <<[name |-> Name("A"), progress |-> 0]>>),
        Size(37), FALSE>> }

TermSetup == [raw_mode |-> TRUE, alternate_screen |-> TRUE,
              mouse_capture |-> TRUE, cursor_shown |-> FALSE]

NoArea == Rect(0, 0, 0, 0)

\* ------------------------------------------------------------------- Init
\* The state when the main loop first blocks on the queue (lines 43-113).
Init ==
    /\ \E e \in Environments :
          /\ proj_dirs = e[1]
          /\ disk = e[2]
          /\ size = e[3]
          /\ expand_to_fill = e[4]
    /\ loaded = load_todos(proj_dirs, disk)
    /\ todos = IF loaded = <<>> THEN <<NewTodo>> ELSE loaded
    /\ dragging = FALSE
    /\ drag_index = None
    /\ editing_index = None
    /\ input_buffer = <<>>
    /\ just_started_editing = FALSE
    /\ arm = "none"
    /\ saves = 0
    /\ pc = IF draw_panics(todos, compute_chunks(size, Len(todos),
                                                 expand_to_fill))
            THEN "panicked" ELSE "loop"
    /\ final_saves = 0
    /\ term = TermSetup
    /\ bar_area = NoArea
    /\ trace = <<>>
    /\ rendered = <<>>
    /\ queue = <<>>
    /\ input_alive = TRUE

\* ---------------------------------------------------------------- actions
Env == <<loaded, proj_dirs, size, expand_to_fill, bar_area, trace, rendered>>

Threads == <<queue, input_alive>>

\* The main thread, blocked in rx.recv() (line 116), receives ev, handles it
\* (lines 117-220) and runs the next iteration up to its rx.recv(): layout
\* and draw (lines 106-113), where draw_ok tells whether terminal.size()?
\* and terminal.draw(..)? return Ok.
Iterate(ev, draw_ok) ==
    /\ pc = "loop"
    /\ \E s \in {handle_event(Local, ev,
                              compute_chunks(size, Len(todos), expand_to_fill))} :
          \* the model stops adding todos at MaxTodos and typing at MaxLen
          /\ Len(s.todos) <= MaxTodos
          /\ Len(s.input_buffer) > Len(input_buffer)
               /\ ev.type = "Key" => Len(s.input_buffer) <= MaxLen
          /\ todos' = s.todos
          /\ dragging' = s.dragging
          /\ drag_index' = s.drag_index
          /\ editing_index' = s.editing_index
          /\ input_buffer' = s.input_buffer
          /\ just_started_editing' = s.just_started_editing
          /\ disk' = s.disk
          /\ saves' = s.saves
          /\ arm' = s.arm
          /\ pc' = IF s.brk THEN "exited"
                   ELSE IF ~draw_ok THEN "failed"
                   ELSE IF draw_panics(s.todos,
                                       compute_chunks(size, Len(s.todos),
                                                      expand_to_fill))
                        THEN "panicked"
                   ELSE "loop"
    /\ UNCHANGED <<final_saves, term, Env>>

Recv(ev) == Iterate(ev, TRUE)

RecvTick == Recv(Tick) /\ UNCHANGED Threads

RecvKey == \E k \in KeyEvents : Recv(k) /\ UNCHANGED Threads

RecvMouse == \E m \in MouseEvents : Recv(m) /\ UNCHANGED Threads

\* terminal.size()? or terminal.draw(..)? returns an error
LoopError ==
    /\ pc = "loop"
    /\ pc' = "failed"
    /\ arm' = "error"
    /\ saves' = 0
    /\ UNCHANGED <<todos, dragging, drag_index, editing_index, input_buffer,
                   just_started_editing, disk, final_saves, term, Env,
                   Threads>>

Main == <<todos, dragging, drag_index, editing_index, input_buffer,
          just_started_editing, arm>>

\* Before exiting, save the todos (line 224)
FinalSave ==
    /\ pc = "exited"
    /\ \E s \in {save_todos(Local)} :
          /\ disk' = s.disk
          /\ saves' = s.saves
    /\ final_saves' = final_saves + 1
    /\ pc' = "saved"
    /\ UNCHANGED <<Main, term, Env, Threads>>

\* disable_raw_mode()? (line 227)
DisableRawMode ==
    /\ pc = "saved"
    /\ \/ /\ term' = [term EXCEPT !.raw_mode = FALSE]
          /\ pc' = "raw_off"
       \/ /\ term' = term
          /\ pc' = "failed"
    /\ UNCHANGED <<Main, disk, saves, final_saves, Env, Threads>>

\* execute!(.., LeaveAlternateScreen, DisableMouseCapture)? (lines 228-232)
LeaveScreen ==
    /\ pc = "raw_off"
    /\ \/ /\ term' = [term EXCEPT !.alternate_screen = FALSE,
                                  !.mouse_capture = FALSE]
          /\ pc' = "screen_off"
       \/ /\ term' = term
          /\ pc' = "failed"
    /\ UNCHANGED <<Main, disk, saves, final_saves, Env, Threads>>

\* terminal.show_cursor()? and Ok(()) (lines 233-235)
ShowCursor ==
    /\ pc = "screen_off"
    /\ \/ /\ term' = [term EXCEPT !.cursor_shown = TRUE]
          /\ pc' = "done"
       \/ /\ term' = term
          /\ pc' = "failed"
    /\ UNCHANGED <<Main, disk, saves, final_saves, Env, Threads>>

Next ==
    \/ RecvTick
    \/ RecvKey
    \/ RecvMouse
    \/ LoopError
    \/ FinalSave
    \/ DisableRawMode
    \/ LeaveScreen
    \/ ShowCursor

Spec == Init /\ [][Next]_vars

\* ------------------------------------------- bar handling on a given Rect
\* The bar branches of process_mouse_event (lines 342-350, 372-390, 392-397)
\* applied to one todo whose bar region is the Rect bar_area, with the
\* sequence of mouse events and resulting progress values kept in trace.
BarAreas == {Rect(10, 1, 40, 1), Rect(10, 1, 6, 1)}

BarCols == {10, 11, 12, 28, 45, 46}

BarProgress == {0, 10, 100}

InitBar ==
    /\ proj_dirs = TRUE
    /\ \E p \in BarProgress :
          todos = <<[name |-> Name("A"), progress |-> p]>>
    /\ loaded = todos
    /\ disk = File("ok", todos)
    /\ dragging = FALSE
    /\ drag_index = None
    /\ editing_index = None
    /\ input_buffer = <<>>
    /\ just_started_editing = FALSE
    /\ size = Size(72)
    /\ expand_to_fill = TRUE
    /\ arm = "none"
    /\ saves = 0
    /\ pc = "bar"
    /\ final_saves = 0
    /\ term = TermSetup
    /\ bar_area \in BarAreas
    /\ trace = <<>>
    /\ rendered = <<>>
    /\ queue = <<>>
    /\ input_alive = TRUE

BarApply(s, kind, column) ==
    /\ Len(trace) < MaxTrace
    /\ todos' = s.todos
    /\ dragging' = s.dragging
    /\ drag_index' = s.drag_index
    /\ disk' = s.disk
    /\ saves' = s.saves
    /\ trace' = Append(trace, [kind |-> kind, column |-> column,
                               progress |-> s.todos[1].progress])
    /\ UNCHANGED <<editing_index, input_buffer, just_started_editing, loaded,
                   proj_dirs, size, expand_to_fill, arm, pc, final_saves,
                   term, bar_area, rendered, Threads>>

BarDown ==
    /\ pc = "bar"
    /\ \E c \in BarCols :
          /\ is_inside(<<c, bar_area.y>>, bar_area)
          /\ BarApply(start_dragging(Local, 1, bar_area, c), "Down", c)

BarDrag ==
    /\ pc = "bar"
    /\ \E c \in BarCols :
          BarApply(IF dragging /\ drag_index # None
                   THEN drag_to(Local, drag_index, bar_area, c)
                   ELSE Local, "Drag", c)

BarUp ==
    /\ pc = "bar"
    /\ BarApply(mouse_up(Local, Mouse("Up", "Left", 0, 0)), "Up", 0)

NextBar == BarDown \/ BarDrag \/ BarUp

SpecBar == InitBar /\ [][NextBar]_vars

\* ------------------------------------- build_progress_bar on given inputs
\* build_progress_bar (lines 430-450) called with a progress (a u16 read
\* from the file or set by update_progress) and a width.
RenderProgress == 0..150

RenderWidths == 0..MaxWidth

InitRender ==
    /\ proj_dirs = TRUE
    /\ \E p \in RenderProgress :
          todos = <<[name |-> Name("A"), progress |-> p]>>
    /\ loaded = todos
    /\ disk = File("ok", todos)
    /\ dragging = FALSE
    /\ drag_index = None
    /\ editing_index = None
    /\ input_buffer = <<>>
    /\ just_started_editing = FALSE
    /\ size = Size(72)
    /\ expand_to_fill = TRUE
    /\ arm = "none"
    /\ saves = 0
    /\ pc = "render"
    /\ final_saves = 0
    /\ term = TermSetup
    /\ \E w \in RenderWidths : bar_area = Rect(0, 0, w, 1)
    /\ trace = <<>>
    /\ rendered = <<>>
    /\ queue = <<>>
    /\ input_alive = TRUE

Render ==
    /\ pc = "render"
    /\ \E r \in {build_progress_bar(todos[1].progress, bar_area.width)} :
          /\ rendered' = r.text
          /\ pc' = IF r.panic THEN "panicked" ELSE "rendered"
    /\ UNCHANGED <<Main, disk, saves, final_saves, term, loaded, proj_dirs,
                   size, expand_to_fill, bar_area, trace, Threads>>

NextRender == Render

SpecRender == InitRender /\ [][NextRender]_vars

\* ------------------------------------------- input thread and the channel
\* The input thread (lines 53-81) sends events on tx_clone; main receives
\* them with rx.recv() (line 116).  Here the event main handles is the head
\* of the queue, where Spec lets it be any event.
QEvents == {Tick, Key("Char", "q"), Mouse("Down", "Left", 67, 1),
            Mouse("Down", "Left", 32, 1), Mouse("Up", "Left", 5, 1)}

\* The process runs until main returns or panics
Running == pc \notin {"done", "failed", "panicked"}

senders_moved(alive) == IF alive THEN 1 ELSE 0

\* Live Senders of the channel: tx, which main owns until it returns (line
\* 50), and tx_clone, moved into the input thread (lines 52-53)
senders(alive) == 1 + (IF alive THEN 1 ELSE 0)

InitThreads ==
    /\ proj_dirs = TRUE
    /\ disk = File("ok", <<[name |-> Name("X"), progress |-> 0]>>)
    /\ size = Size(72)
    /\ expand_to_fill = TRUE
    /\ loaded = load_todos(proj_dirs, disk)
    /\ todos = loaded
    /\ dragging = FALSE
    /\ drag_index = None
    /\ editing_index = None
    /\ input_buffer = <<>>
    /\ just_started_editing = FALSE
    /\ arm = "none"
    /\ saves = 0
    /\ pc = "loop"
    /\ final_saves = 0
    /\ term = TermSetup
    /\ bar_area = NoArea
    /\ trace = <<>>
    /\ rendered = <<>>
    /\ queue = <<>>
    /\ input_alive = TRUE

\* tx_clone.send(..).unwrap() (lines 63-65, 68-70, 77)
InputSend ==
    /\ Running
    /\ input_alive
    /\ Len(queue) < MaxQueue
    /\ \E ev \in QEvents : queue' = Append(queue, ev)
    /\ UNCHANGED <<Main, disk, saves, pc, final_saves, term, Env, input_alive>>

\* event::poll(..).unwrap() or event::read().unwrap() panics (lines 60-61):
\* the thread ends and tx_clone is dropped
InputPanics ==
    /\ Running
    /\ input_alive
    /\ input_alive' = FALSE
    /\ UNCHANGED <<Main, disk, saves, pc, final_saves, term, Env, queue>>

\* rx.recv()? (line 116): the oldest queued event; with the queue empty, Err
\* when no Sender is left, and otherwise main stays blocked
MainRecv ==
    /\ pc = "loop"
    /\ IF queue # <<>>
       THEN /\ \E draw_ok \in BOOLEAN : Iterate(Head(queue), draw_ok)
            /\ queue' = Tail(queue)
            /\ UNCHANGED input_alive
       ELSE /\ senders(input_alive) = 0
            /\ pc' = "failed"
            /\ arm' = "error"
            /\ saves' = 0
            /\ UNCHANGED <<todos, dragging, drag_index, editing_index,
                           input_buffer, just_started_editing, disk,
                           final_saves, term, Env, Threads>>

NextThreads ==
    \/ InputSend
    \/ InputPanics
    \/ MainRecv
    \/ FinalSave
    \/ DisableRawMode
    \/ LeaveScreen
    \/ ShowCursor

SpecThreads == InitThreads /\ [][NextThreads]_vars

\* ================================================================ claims
KeyQ == Key("Char", "q")

DownLeft == {m \in MouseEvents : m.kind = "Down" /\ m.button = "Left"}

Chunks == compute_chunks(size, Len(todos), expand_to_fill)

\* The position of m is in the title region of todo i
OnTitle(m, i) ==
    /\ i \in 1..Len(todos)
    /\ is_inside(<<m.column, m.row>>, horizontal_chunks(Chunks[i])[1])

\* The position of m is in the add-button rectangle
OnAdd(m) == is_inside(<<m.column, m.row>>, Chunks[Len(todos) + 1])

\* A step of the main loop that dispatches a mouse event outside edit mode
\* (line 203)
NormalMouseStep ==
    pc = "loop" /\ editing_index = None /\ arm' = "normal_mouse"

InRange(list) == \A i \in 1..Len(list) : list[i].progress \in 0..100

InitialTodos == IF loaded = <<>> THEN <<NewTodo>> ELSE loaded

TermRestored == [raw_mode |-> FALSE, alternate_screen |-> FALSE,
                 mouse_capture |-> FALSE, cursor_shown |-> TRUE]

\* C1: if every loaded progress value is in [0,100], then after any sequence
\* of Key, Mouse and Tick events every todo's progress is in [0,100].
C1_ProgressInRange == InRange(loaded) => InRange(todos)

C1_Witness ==
    /\ InRange(loaded)
    /\ arm = "normal_mouse"
    /\ \E i \in 1..Len(todos) : todos[i].progress = 100

\* C2 (as claimed): dragging and editing are never both set.
C2_DragEditExclusive == ~(dragging /\ editing_index # None)

\* C3: when the data directory resolves, every loop iteration that changes
\* the todo list leaves the file equal to the in-memory list.
C3_MutationPersisted ==
    [][(proj_dirs /\ pc = "loop" /\ todos' # todos)
         => disk' = File("ok", todos')]_vars

C3_Witness ==
    /\ proj_dirs
    /\ pc = "loop"
    /\ saves > 0
    /\ todos # InitialTodos
    /\ Len(todos) > Len(InitialTodos)
    /\ \E i \in 1..Len(todos) : todos[i].progress # 0
    /\ disk = File("ok", todos)

\* C4: 'q' outside edit mode, dragging or not, leaves the loop with nothing
\* changed; no event is handled after that; the next step of main is the one
\* final save of the whole list; the terminal is touched only after that
\* save, and a completed run has restored all four terminal modes.
C4_QuitSavesThenRestores ==
    /\ [][(editing_index = None /\ Recv(KeyQ))
            => /\ pc' = "exited"
               /\ UNCHANGED <<todos, dragging, drag_index, editing_index,
                              input_buffer, disk, final_saves, term>>]_vars
    /\ [][pc # "loop"
            => UNCHANGED <<todos, dragging, drag_index, editing_index,
                           input_buffer, just_started_editing, arm>>]_vars
    /\ [][pc = "exited"
            => /\ pc' = "saved"
               /\ final_saves' = 1
               /\ proj_dirs => disk' = File("ok", todos)
               /\ term' = term]_vars
    /\ [](term # TermSetup => final_saves = 1)
    /\ [](final_saves <= 1)
    /\ [](pc = "done" => term = TermRestored /\ final_saves = 1)

C4_Witness ==
    /\ pc = "done"
    /\ dragging
    /\ final_saves = 1
    /\ term = TermRestored
    /\ disk = File("ok", todos)

\* C5 (as claimed): 'q' received while editing todo i commits the buffer as
\* the name (no 'q' appended), leaves edit mode, saves, and exits the loop.
C5_QWhileEditingCommitsAndExits ==
    [][(editing_index # None /\ Recv(KeyQ))
         => /\ todos' = [todos EXCEPT ![editing_index].name = input_buffer]
            /\ editing_index' = None
            /\ saves' >= 1
            /\ pc' = "exited"]_vars

\* C6: every step that enters edit mode (a Down(Left) on a title) sets the
\* latch, and a mouse event of any kind and position received in edit mode
\* on todo i with the latch set is discarded: still editing i, buffer, todo
\* list and file untouched, no save, latch cleared.
C6_FirstMouseEventDiscarded ==
    /\ [][(pc = "loop" /\ editing_index = None /\ editing_index' # None)
            => just_started_editing']_vars
    /\ [][\A m \in MouseEvents :
            (editing_index # None /\ just_started_editing /\ Recv(m))
              => /\ editing_index' = editing_index
                 /\ input_buffer' = input_buffer
                 /\ todos' = todos
                 /\ disk' = disk
                 /\ saves' = 0
                 /\ ~just_started_editing'
                 /\ UNCHANGED <<dragging, drag_index, pc>>]_vars

C6_Witness ==
    /\ arm = "edit_mouse_ignored"
    /\ editing_index # None
    /\ ~just_started_editing
    /\ saves = 0

C8_TitleClickSeedsBuffer ==
    [][\A m \in DownLeft : \A i \in 1..Len(todos) :
         (NormalMouseStep /\ OnTitle(m, i) /\ Recv(m))
           => /\ editing_index' = i
              /\ input_buffer' = IF todos[i].name = NewTodoName
                                 THEN <<>> ELSE todos[i].name
              /\ todos' = todos]_vars

C8_Witness ==
    /\ arm = "normal_mouse"
    /\ editing_index # None
    /\ just_started_editing
    /\ Len(todos) = 2
    /\ todos[1].name = Name("X")
    /\ todos[2].name = NewTodoName
    /\ editing_index = 2
    /\ input_buffer = <<>>

\* C9: a Down(Left) on the add-button rectangle outside edit mode appends one
\* todo "New Todo" with progress 0, leaves every existing todo at its index,
\* and leaves editing and dragging unchanged.
C9_AddAppendsOne ==
    [][\A m \in DownLeft :
         (NormalMouseStep /\ OnAdd(m) /\ Recv(m))
           => /\ Len(todos') = Len(todos) + 1
              /\ todos'[Len(todos')] = NewTodo
              /\ \A i \in 1..Len(todos) : todos'[i] = todos[i]
              /\ UNCHANGED <<editing_index, dragging, drag_index>>]_vars

C9_Witness ==
    /\ arm = "normal_mouse"
    /\ saves = 1
    /\ Len(loaded) = 1
    /\ Len(todos) = 2
    /\ todos[1] = loaded[1]
    /\ todos[2] = NewTodo
    /\ dragging
    /\ editing_index = None

\* C10: one todo at progress 0 with bar region columns [10,50); Down(Left)
\* at column 28, Drag(Left) to column 46, Drag(Left) to column 11.
C10_Run ==
    /\ bar_area = Rect(10, 1, 40, 1)
    /\ loaded[1].progress = 0
    /\ Len(trace) = 3
    /\ trace[1].kind = "Down" /\ trace[1].column = 28
    /\ trace[2].kind = "Drag" /\ trace[2].column = 46
    /\ trace[3].kind = "Drag" /\ trace[3].column = 11

C10_Progress == <<trace[1].progress, trace[2].progress, trace[3].progress>>

\* C10 (as claimed): the progress becomes 48, then 100, then 0.
C10_Scenario_48_100_0 == C10_Run => C10_Progress = <<48, 100, 0>>

\* C10 (amended): the progress becomes 48, stays 48 on the drag to column 46
\* (the bar of a two-digit percentage ends at column 45), then becomes 0.
C10_Scenario_48_48_0 == C10_Run => C10_Progress = <<48, 48, 0>>

C10_Witness == C10_Run /\ trace[2].progress = 48 /\ todos[1].progress = 0

\* The interior width of a bar drawn in area for a todo at progress p
BarWidth(area, p) == area.width - (2 + Len(percent_str(p)))

LastEvent == trace'[Len(trace')]

\* A step of the bar handling that runs update_progress: a Down(Left) on
\* the bar, or a Drag(Left) while dragging
BarUpdateStep ==
    /\ pc = "bar"
    /\ Len(trace') = Len(trace) + 1
    /\ LastEvent.kind = "Down" \/ (LastEvent.kind = "Drag" /\ dragging)

\* C11 (as claimed): with bar_width > 0, a column outside the half-open
\* interval [x+1, x+1+bar_width), the column x+1+bar_width included, leaves
\* the progress unchanged.
C11_HalfOpenInterior ==
    [][BarUpdateStep =>
         LET p == todos[1].progress
             bw == BarWidth(bar_area, p)
             lo == bar_area.x + 1
             mx == LastEvent.column
         IN (bw > 0 /\ ~(mx >= lo /\ mx < lo + bw))
               => todos'[1].progress = p]_vars

\* C11 (amended): with bar_width > 0, the progress is updated exactly when
\* the column is in the closed interval [x+1, x+1+bar_width]; at the column
\* x+1+bar_width it becomes 100, and outside the interval it is unchanged.
C11_ClosedInterior ==
    [][BarUpdateStep =>
         LET p == todos[1].progress
             bw == BarWidth(bar_area, p)
             lo == bar_area.x + 1
             mx == LastEvent.column
         IN bw > 0
               => /\ (mx >= lo /\ mx <= lo + bw)
                       => todos'[1].progress = Min2(((mx - lo) * 100) \div bw, 100)
                  /\ mx = lo + bw => todos'[1].progress = 100
                  /\ (mx < lo \/ mx > lo + bw) => todos'[1].progress = p]_vars

C11_Witness ==
    /\ bar_area = Rect(10, 1, 40, 1)
    /\ loaded[1].progress = 10
    /\ Len(trace) = 3
    /\ trace[1].kind = "Down" /\ trace[1].column = 45 /\ trace[1].progress = 100
    /\ trace[2].kind = "Drag" /\ trace[2].column = 45 /\ trace[2].progress = 100
    /\ trace[3].kind = "Drag" /\ trace[3].column = 10 /\ trace[3].progress = 100

\* The suffix " P%": a space, the decimal digits of P, one percent sign
Suffix(P) == <<" ">> \o ToDecimal(P) \o <<"%">>

Overhead(P) == 2 + Len(Suffix(P))

\* C12: for P in [0,100] and W > overhead, the rendered bar is W characters:
\* "[", floor(P*(W-overhead)/100) times '#', the rest of the W-overhead
\* cells '-', "]", then the suffix " P%".
C12_BarLayout ==
    LET P == todos[1].progress
        W == bar_area.width
        bw == W - Overhead(P)
        f == (P * bw) \div 100
    IN (pc \in {"rendered", "panicked"} /\ P \in 0..100 /\ W > Overhead(P))
          => /\ pc = "rendered"
             /\ Len(rendered) = W
             /\ rendered[1] = "["
             /\ \A k \in 2..(1 + f) : rendered[k] = "#"
             /\ \A k \in (2 + f)..(1 + bw) : rendered[k] = "-"
             /\ rendered[2 + bw] = "]"
             /\ SubSeq(rendered, 3 + bw, W) = Suffix(P)

C12_Witness ==
    /\ pc = "rendered"
    /\ todos[1].progress = 50
    /\ bar_area.width = 12
    /\ rendered = <<"[", "#", "#", "#", "-", "-", "-", "]", " ", "5", "0", "%">>

\* C13 (as claimed): for P in [0,100] and W <= overhead, the renderer returns
\* exactly the suffix " P%".
C13_NarrowIsSuffix ==
    LET P == todos[1].progress
        W == bar_area.width
    IN (pc \in {"rendered", "panicked"} /\ P \in 0..100 /\ W <= Overhead(P))
          => pc = "rendered" /\ rendered = Suffix(P)

\* C14 (as claimed): with a loaded progress above 100, drawing the bar and
\* handling events never crashes.
C14_OutOfRangeTolerated == pc # "panicked"

\* C15: load returns the empty list when the data directory cannot be
\* resolved or the file is absent, unreadable or malformed; start-up then
\* seeds the single todo ("New Todo", 0) without failing; and the todo list
\* is non-empty in every state.
C15_LoadNeverFails ==
    /\ Len(todos) >= 1
    /\ arm = "none"
         => /\ (~proj_dirs \/ disk.state \in {"absent", "unreadable", "malformed"})
                 => loaded = <<>>
            /\ loaded = <<>> => todos = <<NewTodo>> /\ pc = "loop"

C15_Witness ==
    /\ arm = "tick"
    /\ pc = "loop"
    /\ disk.state = "unreadable"
    /\ loaded = <<>>
    /\ todos = <<NewTodo>>

\* The locals after the edit on todo editing_index is committed and saved
Committed ==
    LET list == [todos EXCEPT ![editing_index].name = input_buffer]
    IN [Local EXCEPT !.todos = list,
                     !.input_buffer = <<>>,
                     !.editing_index = None,
                     !.disk = IF proj_dirs THEN File("ok", list) ELSE disk,
                     !.saves = 1]

\* C16: in edit mode with the latch clear, a mouse event other than Moved
\* commits the edit and is then handled as in Normal state against the
\* layout of this iteration; a Down(Left) on the title of todo j ends in
\* edit mode on j, buffer seeded from the name of j, latch set; a Moved
\* event changes nothing.
C16_MouseCommitsThenRedispatches ==
    [][\A m \in MouseEvents :
         (/\ editing_index # None
          /\ ~just_started_editing
          /\ arm' \in {"edit_mouse_commit", "edit_mouse_moved"}
          /\ Recv(m))
           => IF m.kind = "Moved"
              THEN /\ UNCHANGED <<todos, editing_index, input_buffer,
                                  just_started_editing, dragging, drag_index,
                                  disk, pc>>
                   /\ saves' = 0
              ELSE /\ \E r \in {process_mouse_event(Committed, m, Chunks)} :
                         /\ todos' = r.todos
                         /\ editing_index' = r.editing_index
                         /\ input_buffer' = r.input_buffer
                         /\ just_started_editing' = r.just_started_editing
                         /\ dragging' = r.dragging
                         /\ drag_index' = r.drag_index
                         /\ disk' = r.disk
                         /\ saves' >= 1
                   /\ \A j \in 1..Len(todos) :
                         (m \in DownLeft /\ OnTitle(m, j))
                           => /\ editing_index' = j
                              /\ just_started_editing'
                              /\ todos'[j].name =
                                   IF j = editing_index THEN input_buffer
                                   ELSE todos[j].name
                              /\ input_buffer' =
                                   IF todos'[j].name = NewTodoName THEN <<>>
                                   ELSE todos'[j].name]_vars

C16_Witness ==
    /\ arm = "edit_mouse_commit"
    /\ saves = 1
    /\ editing_index = 2
    /\ just_started_editing
    /\ input_buffer = <<>>
    /\ todos[1].name = Name("B")
    /\ todos[2].name = NewTodoName

\* C17: once the input thread has terminated and main has consumed the
\* queued events, main stays blocked in the receive: it takes no further
\* step, so it never leaves the loop, never gets an error from the receive
\* and never runs the final save or the terminal teardown.
C17_BlocksForever ==
    [][(~input_alive /\ queue = <<>> /\ pc = "loop")
         => /\ pc' = "loop"
            /\ ~input_alive'
            /\ queue' = <<>>
            /\ UNCHANGED <<Main, disk, final_saves, term>>]_vars

C17_Witness ==
    /\ ~input_alive
    /\ queue = <<>>
    /\ pc = "loop"
    /\ arm = "normal_mouse"
    /\ todos[1].progress = 100
    /\ final_saves = 0
    /\ term = TermSetup

\* The position of m is in the bar region of todo i
OnBar(m, i) ==
    /\ i \in 1..Len(todos)
    /\ is_inside(<<m.column, m.row>>, horizontal_chunks(Chunks[i])[2])

\* C18: after every handled event drag_index is defined exactly when
\* dragging is true and is then the index of an existing todo; an Up(Left)
\* outside edit mode clears both, and a Down(Left) on the bar of todo i sets
\* dragging and drag_index = i.
C18_DragIndexWithDragging ==
    /\ [][/\ dragging' <=> drag_index' # None
          /\ drag_index' # None => drag_index' \in 1..Len(todos')]_vars
    /\ [][(NormalMouseStep /\ Recv(Mouse("Up", "Left", 5, 1)))
            => ~dragging' /\ drag_index' = None]_vars
    /\ [][\A m \in DownLeft : \A i \in 1..Len(todos) :
            (NormalMouseStep /\ OnBar(m, i) /\ Recv(m))
              => dragging' /\ drag_index' = i]_vars

C18_Witness ==
    /\ arm = "normal_mouse"
    /\ editing_index = None
    /\ ~dragging
    /\ drag_index = None
    /\ Len(todos) = 2
    /\ todos[2].progress = 100

\* C19: an index held in editing_index or drag_index is an index of the
\* todo list and of the layout computed for the iteration, which has one
\* rectangle more than there are todos; the list never gets shorter.
C19_IndicesInRange ==
    [][/\ Len(todos') >= Len(todos)
       /\ Len(Chunks') = Len(todos') + 1
       /\ \A i \in {editing_index', drag_index'} \ {None} :
             i \in 1..Len(todos') /\ i \in 1..Len(Chunks')]_vars

C19_Witness ==
    /\ pc = "loop"
    /\ Len(loaded) = 1
    /\ Len(todos) = 2
    /\ editing_index = 2
    /\ dragging
    /\ drag_index = 2

\* The progress before the k-th event of trace
ProgressBefore(k) ==
    IF k = 1 THEN loaded[1].progress ELSE trace[k - 1].progress

\* Events k, k+1, k+2 of trace are a Down(Left), an Up(Left) and a
\* Down(Left) at the column of the first
DownUpDown(k) ==
    /\ k + 2 <= Len(trace)
    /\ trace[k].kind = "Down"
    /\ trace[k + 1].kind = "Up"
    /\ trace[k + 2].kind = "Down"
    /\ trace[k + 2].column = trace[k].column

\* C20 (as claimed): the same Down(Left) handled twice, an Up(Left) between,
\* gives the progress the first one gave.
C20_SecondDownSameProgress ==
    \A k \in 1..Len(trace) :
        DownUpDown(k) => trace[k + 2].progress = trace[k].progress

Digits(p) == Len(ToDecimal(p))

\* The k-th event of trace is a Down(Left) that sets the progress: its
\* column is in the closed interval of the bar as drawn before it
SetsProgress(k) ==
    LET bw == BarWidth(bar_area, ProgressBefore(k))
        lo == bar_area.x + 1
    IN /\ trace[k].kind = "Down"
       /\ bw > 0
       /\ trace[k].column >= lo
       /\ trace[k].column <= lo + bw

\* C20 (amended): the progress set by a Down(Left) on a bar is a function of
\* the bar region, the column and the number of digits of the previous
\* progress; the second of two equal Down(Left) gives the progress of the
\* first when the first left the number of digits as it was.
C20_SecondDownSameProgressSameDigits ==
    /\ \A j, k \in 1..Len(trace) :
          (/\ SetsProgress(j)
           /\ SetsProgress(k)
           /\ trace[j].column = trace[k].column
           /\ Digits(ProgressBefore(j)) = Digits(ProgressBefore(k)))
             => trace[j].progress = trace[k].progress
    /\ \A k \in 1..Len(trace) :
          (DownUpDown(k) /\ Digits(trace[k].progress) = Digits(ProgressBefore(k)))
             => trace[k + 2].progress = trace[k].progress

C20_Witness ==
    /\ bar_area = Rect(10, 1, 40, 1)
    /\ loaded[1].progress = 10
    /\ Len(trace) = 3
    /\ DownUpDown(1)
    /\ trace[1].column = 28
    /\ trace[1].progress = 50
    /\ trace[3].progress = 50

\* The edit buffer on entering edit mode on a todo of this name
Seed(name) == IF name = NewTodoName THEN <<>> ELSE name

\* In edit mode with the buffer as it was on entry
Pristine ==
    /\ editing_index # None
    /\ input_buffer = Seed(todos[editing_index].name)

\* Entering edit mode leaves the buffer as seeded, and the steps of edit mode
\* that are neither a character or Backspace key nor a commit (a Tick, the
\* discarded first mouse event, a Moved event) keep it so and change no todo.
PristineKept ==
    /\ (pc = "loop" /\ editing_index' # None
          /\ arm' \in {"normal_mouse", "edit_mouse_commit"}) => Pristine'
    /\ (pc = "loop" /\ Pristine
          /\ arm' \in {"tick", "edit_mouse_ignored", "edit_mouse_moved"})
         => Pristine' /\ UNCHANGED <<todos, editing_index>>

\* A commit by Enter or Esc, or (when byMouse) by a non-Moved mouse event
CommitStep(byMouse) ==
    /\ pc = "loop"
    /\ Pristine
    /\ arm' = IF byMouse THEN "edit_mouse_commit" ELSE "edit_enter_esc"

\* The name of the edited todo becomes the seed, and nothing else in the
\* list changes
OnlyNameSeeded == todos' = [todos EXCEPT ![editing_index].name = Seed(@)]

\* C21 (as claimed): entering edit mode on todo i and committing by Enter,
\* Esc or a non-Moved mouse event, with no character or Backspace key in
\* between, leaves the name of i unchanged (empty if it was "New Todo"), and
\* all other todos and all progress values unchanged.
C21_UntouchedEditChangesNothingElse ==
    [][/\ PristineKept
       /\ CommitStep(FALSE) => OnlyNameSeeded
       /\ CommitStep(TRUE) => OnlyNameSeeded]_vars

\* C21 (amended): as claimed for a commit by Enter or Esc; a commit by a
\* non-Moved mouse event leaves the name of i unchanged (empty if it was
\* "New Todo") and every other name unchanged, but the event is then handled
\* as in Normal state and may change a progress value or append a todo.
C21_UntouchedEditKeepsNames ==
    [][/\ PristineKept
       /\ CommitStep(FALSE) => OnlyNameSeeded
       /\ CommitStep(TRUE)
            => /\ Len(todos') \in {Len(todos), Len(todos) + 1}
               /\ \A k \in 1..Len(todos) :
                     todos'[k].name = IF k = editing_index
                                      THEN Seed(todos[k].name)
                                      ELSE todos[k].name
               /\ Len(todos') > Len(todos)
                    => todos'[Len(todos')] = NewTodo]_vars

C21_Witness ==
    /\ arm = "edit_mouse_commit"
    /\ editing_index = None
    /\ loaded = <<>>
    /\ Len(todos) = 1
    /\ todos[1].name = <<>>
    /\ todos[1].progress = 100

====
